---- MODULE Spec2Model ----
(***************************************************************************)
(* Verification model of the HUbGuard claim-verification pipeline:         *)
(* gatekeeper pre-filter, verification workflows, learning log, document   *)
(* index and evidence sources.  Strings are sequences of one-character     *)
(* strings so that tokenising, substring tests and edit distance are       *)
(* computed the way the TypeScript computes them.                          *)
(***************************************************************************)
EXTENDS Integers, Sequences, FiniteSets, TLC

(* ---------------------------- bounds ----------------------------------- *)
\* largest number of vocabulary pieces joined into one message text
MaxWords == 2
\* number of log-verification calls that may be in flight together
NumAppends == 2
\* last millisecond the clock reaches
MaxTime == 2
\* number of rag-search / reload-documents calls that may be in flight together
NumRequests == 2
\* most result items a search service returns in one response
MaxItems == 2
\* most entries the learning log holds before a looked-up call
MaxPrior == 2

(* ------------------------- string helpers ------------------------------ *)
UpperChars == <<"A","B","C","D","E","F","G","H","I","J","K","L","M",
                "N","O","P","Q","R","S","T","U","V","W","X","Y","Z">>
LowerChars == <<"a","b","c","d","e","f","g","h","i","j","k","l","m",
                "n","o","p","q","r","s","t","u","v","w","x","y","z">>

\* String.prototype.toLowerCase, one character
toLowerChar(c) ==
  IF \E i \in 1..26 : UpperChars[i] = c
  THEN LowerChars[CHOOSE i \in 1..26 : UpperChars[i] = c]
  ELSE c

\* String.prototype.toLowerCase
toLowerCase(s) == [i \in 1..Len(s) |-> toLowerChar(s[i])]

\* the characters the regular expression class \s matches in the inputs
isSpace(c) == c \in {" ", "\t", "\n"}

RECURSIVE trimStart(_)
trimStart(s) ==
  IF s = <<>> THEN <<>>
  ELSE IF isSpace(Head(s)) THEN trimStart(Tail(s)) ELSE s

RECURSIVE trimEnd(_)
trimEnd(s) ==
  IF s = <<>> THEN <<>>
  ELSE IF isSpace(s[Len(s)]) THEN trimEnd(SubSeq(s, 1, Len(s) - 1)) ELSE s

\* String.prototype.trim
trim(s) == trimEnd(trimStart(s))

\* String.prototype.split(/\s+/): every maximal run of white space is one
\* separator; a separator at either end leaves an empty string there, and
\* the empty string splits into one empty string
splitWhitespace(s) ==
  LET n == Len(s)
      starts == { i \in 1..n : ~isSpace(s[i]) /\ (i = 1 \/ isSpace(s[i - 1])) }
      endOf(i) == CHOOSE j \in i..n :
                    /\ j = n \/ isSpace(s[j + 1])
                    /\ \A h \in i..j : ~isSpace(s[h])
      startOf(k) == CHOOSE i \in starts :
                      Cardinality({ h \in starts : h < i }) = k - 1
      words == [k \in 1..Cardinality(starts) |->
                  SubSeq(s, startOf(k), endOf(startOf(k)))]
      lead == IF n = 0 \/ isSpace(s[1]) THEN << <<>> >> ELSE <<>>
      trail == IF n > 0 /\ isSpace(s[n]) THEN << <<>> >> ELSE <<>>
  IN  lead \o words \o trail

\* Array.prototype.filter((w) => w.length > 0)
nonEmptyWords(ws) == SelectSeq(ws, LAMBDA w : Len(w) > 0)

\* String.prototype.includes
includes(s, sub) ==
  \E i \in 0..(Len(s) - Len(sub)) : SubSeq(s, i + 1, i + Len(sub)) = sub

Min2(x, y) == IF x <= y THEN x ELSE y
Max2(x, y) == IF x >= y THEN x ELSE y

CASUAL_WORDS ==
  << <<"h","i">>,
     <<"h","e","l","l","o">>,
     <<"h","e","y">>,
     <<"t","h","a","n","k","s">>,
     <<"t","h","a","n","k">>,
     <<"o","k">>,
     <<"o","k","a","y">>,
     <<"b","o","t">>,
     <<"b","y","e">>,
     <<"g","o","o","d">>,
     <<"n","i","c","e">>,
     <<"c","o","o","l">>,
     <<"y","e","s">>,
     <<"n","o">>,
     <<"m","a","y","b","e">>,
     <<"s","u","r","e">>,
     <<"g","r","e","a","t">>,
     <<"a","w","e","s","o","m","e">>,
     <<"l","o","l">>,
     <<"h","a","h","a">>,
     <<"h","m","m">>,
     <<"o","h">>,
     <<"a","h">>,
     <<"w","o","w">> >>

PANIC_KEYWORDS ==
  << <<"p","o","s","t","p","o","n","e","d">>,
     <<"p","o","s","t","p","o","n","e">>,
     <<"e","x","a","m">>,
     <<"e","x","a","m","s">>,
     <<"s","y","l","l","a","b","u","s">>,
     <<"l","e","a","k","e","d">>,
     <<"l","e","a","k">>,
     <<"c","a","n","c","e","l">>,
     <<"c","a","n","c","e","l","l","e","d">>,
     <<"c","a","n","c","e","l","e","d">>,
     <<"h","o","l","i","d","a","y">>,
     <<"h","o","l","i","d","a","y","s">>,
     <<"n","o","t","i","c","e">>,
     <<"t","i","m","e","t","a","b","l","e">>,
     <<"s","c","h","e","d","u","l","e">>,
     <<"f","a","k","e">>,
     <<"t","r","u","e","?">>,
     <<"i","s"," ","i","t"," ","t","r","u","e">>,
     <<"c","o","n","f","i","r","m">>,
     <<"r","u","m","o","r">>,
     <<"r","u","m","o","u","r">>,
     <<"o","f","f","i","c","i","a","l">>,
     <<"c","i","r","c","u","l","a","r">>,
     <<"a","n","n","o","u","n","c","e","m","e","n","t">>,
     <<"d","e","a","d","l","i","n","e">>,
     <<"e","x","t","e","n","d","e","d">>,
     <<"e","x","t","e","n","s","i","o","n">>,
     <<"r","e","s","u","l","t","s">>,
     <<"r","e","s","u","l","t">>,
     <<"m","a","r","k","s">>,
     <<"g","r","a","d","e">>,
     <<"g","r","a","d","e","s">>,
     <<"r","e","v","a","l","u","a","t","i","o","n">>,
     <<"s","u","p","p","l","e","m","e","n","t","a","r","y">>,
     <<"b","a","c","k","l","o","g">>,
     <<"a","t","t","e","n","d","a","n","c","e">>,
     <<"s","e","m","e","s","t","e","r">>,
     <<"f","e","e">>,
     <<"f","e","e","s">>,
     <<"a","d","m","i","s","s","i","o","n">>,
     <<"p","l","a","c","e","m","e","n","t">>,
     <<"i","n","t","e","r","n","s","h","i","p">>,
     <<"h","o","s","t","e","l">>,
     <<"m","e","s","s">>,
     <<"l","i","b","r","a","r","y">>,
     <<"l","a","b">>,
     <<"p","r","a","c","t","i","c","a","l">>,
     <<"v","i","v","a">>,
     <<"p","r","o","j","e","c","t">>,
     <<"t","h","e","s","i","s">>,
     <<"d","i","s","s","e","r","t","a","t","i","o","n">>,
     <<"c","o","n","v","o","c","a","t","i","o","n">>,
     <<"d","e","g","r","e","e">>,
     <<"c","e","r","t","i","f","i","c","a","t","e">>,
     <<"t","r","a","n","s","c","r","i","p","t">>,
     <<"m","i","g","r","a","t","i","o","n">>,
     <<"t","r","a","n","s","f","e","r">>,
     <<"r","e","-","e","x","a","m">>,
     <<"r","e","e","x","a","m">>,
     <<"c","o","m","p","a","r","t","m","e","n","t">>,
     <<"d","e","t","a","i","n","e","d">>,
     <<"s","u","s","p","e","n","d","e","d">>,
     <<"e","x","p","e","l","l","e","d">>,
     <<"r","u","s","t","i","c","a","t","e","d">> >>

(* ---------------------- gatekeeperTool.ts (fuzzy) ---------------------- *)
\* a for-loop "for (k = i; k <= n; k++) acc = body(acc, k)"; each pass
\* works on the value the pass before it left
RECURSIVE forLoop(_, _, _, _)
forLoop(body(_, _), acc, i, n) ==
  IF i > n THEN acc
  ELSE CHOOSE r \in { forLoop(body, v, i + 1, n) : v \in {body(acc, i)} } : TRUE

\* the substitution case is left out of the minimum
levCellNoSubstitution(prev, row, a, bch, j) ==
  IF bch = a[j]
  THEN prev[j]
  ELSE Min2(row[j] + 1, prev[j + 1] + 1)

\* matrix[i][j]; row holds matrix[i][0..j-1], prev is matrix[i-1]
levCell(prev, row, a, bch, j) ==
  IF bch = a[j]
  THEN prev[j]
  ELSE Min2(prev[j] + 1, Min2(row[j] + 1, prev[j + 1] + 1))

\* row i of the matrix, starting from matrix[i][0] = i
levRow(prev, a, bch, i) ==
  forLoop(LAMBDA row, j : Append(row, levCell(prev, row, a, bch, j)),
          <<i>>, 1, Len(a))

levenshteinDistance(a, b) ==
  forLoop(LAMBDA prev, i : levRow(prev, a, b[i], i),
          [j \in 1..(Len(a) + 1) |-> j - 1], 1, Len(b))[Len(a) + 1]

\* Math.floor(keyword.length * 0.3)
floorThreeTenths(n) == (n * 3) \div 10

DefaultMaxDistance == 2

fuzzyMatchKeyword(word, keyword, maxDistance) ==
  IF word = keyword THEN TRUE
  ELSE IF includes(word, keyword) \/ includes(keyword, word) THEN TRUE
  ELSE IF Len(word) >= 4 /\ Len(keyword) >= 4
       THEN levenshteinDistance(word, keyword)
              <= Min2(maxDistance, floorThreeTenths(Len(keyword)))
       ELSE FALSE

\* textToAnalyze and words of execute
textToAnalyze(context) ==
  trim(toLowerCase(context.message \o <<" ">> \o context.caption))

wordsOf(context) == nonEmptyWords(splitWhitespace(textToAnalyze(context)))

\* rule 1: media check
hasMediaPhotoOnly(context) == context.hasPhoto
hasMedia(context) == context.hasPhoto \/ context.hasDocument

\* rule 3: very short casual greeting
isCasualGreetingUnderThree(words) ==
  /\ Len(words) < 3
  /\ \A i \in 1..Len(words) :
       \E c \in 1..Len(CASUAL_WORDS) : includes(words[i], CASUAL_WORDS[c])
isCasualGreeting(words) ==
  /\ Len(words) <= 3
  /\ \A i \in 1..Len(words) :
       \E c \in 1..Len(CASUAL_WORDS) : includes(words[i], CASUAL_WORDS[c])

\* rule 4, inner loop: the keywords (in list order) that match the word
\* and are not yet in detectedKeywords are pushed
scanKeywords(word, detected) ==
  detected \o
    SelectSeq(PANIC_KEYWORDS,
              LAMBDA keyword :
                /\ fuzzyMatchKeyword(word, toLowerCase(keyword), DefaultMaxDistance)
                /\ ~\E d \in 1..Len(detected) : detected[d] = keyword)

\* rule 4, outer loop over the words
detectKeywords(words) ==
  forLoop(LAMBDA detected, w : scanKeywords(words[w], detected),
          <<>>, 1, Len(words))

mediaDecision ==
  [shouldProcess |-> TRUE, reason |-> "media", detectedKeywords |-> <<>>,
   priority |-> "high"]
forwardedDecision ==
  [shouldProcess |-> TRUE, reason |-> "forwarded", detectedKeywords |-> <<>>,
   priority |-> "medium"]
casualDecisionLow ==
  [shouldProcess |-> FALSE, reason |-> "casual", detectedKeywords |-> <<>>,
   priority |-> "low"]
casualDecision ==
  [shouldProcess |-> FALSE, reason |-> "casual", detectedKeywords |-> <<>>,
   priority |-> "skip"]
keywordDecision(detected) ==
  [shouldProcess |-> TRUE, reason |-> "keywords", detectedKeywords |-> detected,
   priority |-> "high"]
neutralDecision ==
  [shouldProcess |-> FALSE, reason |-> "neutral", detectedKeywords |-> <<>>,
   priority |-> "skip"]

\* gatekeeperTool.execute: the first rule that fires decides
gatekeeperExecute(context) ==
  LET words == wordsOf(context)
  IN  IF hasMedia(context) THEN mediaDecision
      ELSE IF context.isForwarded THEN forwardedDecision
      ELSE IF isCasualGreeting(words) THEN casualDecision
      ELSE LET detected == detectKeywords(words)
           IN  IF Len(detected) > 0 THEN keywordDecision(detected)
               ELSE neutralDecision

(* --------------------------- gatekeeper inputs ------------------------- *)
\* pieces a message text is put together from: casual words, panic
\* keywords (one of them capitalised), misspellings, a neutral word, a
\* fragment of a casual word and a lone blank (so that texts carry leading, trailing and doubled blanks)
Vocabulary ==
  { <<"h","i">>,
    <<"n","o","t","i","c","e">>,
    <<"n","o","t","i","s","e">>,
    <<"E","x","a","m">>,
    <<"e","x","m","s">>,
    <<"e","x","m">>,
    <<"l","u","n","c","h">>,
    <<"a">>,
    <<" ">> }

RECURSIVE joinWords(_)
joinWords(ws) ==
  IF ws = <<>> THEN <<>>
  ELSE IF Len(ws) = 1 THEN ws[1]
  ELSE ws[1] \o <<" ">> \o joinWords(Tail(ws))

Texts == { joinWords(ws) : ws \in UNION { [1..n -> Vocabulary] : n \in 0..MaxWords } }

Captions == { <<>>, <<"o","k">> }

Messages ==
  [message : Texts, caption : Captions,
   hasPhoto : BOOLEAN, hasDocument : BOOLEAN, isForwarded : BOOLEAN]

NoDecision ==
  [shouldProcess |-> FALSE, reason |-> "none", detectedKeywords |-> <<>>,
   priority |-> "none"]

VARIABLES gmsg, gdecision, gpc

\* one inbound message in verifyMessageLogic / verifyWhatsAppMessageLogic
VARIABLES fmsg, fcreds, fpc, fgated, fgate, fsteps, fpaid, fpaidBeforeGate,
          fattachment, ftext, fsent, fresult, flogged, fthrown

\* the learning log: the persisted file, the clock, and the log-verification
\* calls in flight
VARIABLES store, now, lpc, largs, lresult, lprior, lwritten, lfault,
          lmaxPending

\* the document index: the data directory, the module-level index, and the
\* rag-search / reload-documents calls in flight
VARIABLES corpus, documentChunks, isInitialized, rpc, rkind, rlocal, rseen,
          lazyBuilds, hung, rargs, rresult

\* one call of an evidence tool: the tool, whether its API key is set, its
\* arguments, what the remote service did, and what the call gave back
VARIABLES etool, ekey, eargs, eworld, epc, eresult

\* one log-verification call on a given learning log: the file before the
\* call, the file, the claim, the clock and the similar cases handed back
VARIABLES qprior, qstore, qclaim, qnow, qcases, qpc

\* one call of chunkText: the text, the loop variables start and chunks, the
\* windows cut so far, the starts the loop has been at, the returned array
VARIABLES ctext, cstart, cchunks, cwindows, cseen, cout, cpc

\* one use of the lexical matcher: the word, the term, maxDistance, and what
\* fuzzyMatchKeyword and levenshteinDistance gave back
VARIABLES mword, mterm, mmax, mmatched, mdistance, mpc

gateVars == <<gmsg, gdecision, gpc>>
matchVars == <<mword, mterm, mmax, mmatched, mdistance, mpc>>
chunkVars == <<ctext, cstart, cchunks, cwindows, cseen, cout, cpc>>
lookupVars == <<qprior, qstore, qclaim, qnow, qcases, qpc>>
evVars == <<etool, ekey, eargs, eworld, epc, eresult>>
indexVars == <<corpus, documentChunks, isInitialized, rpc, rkind, rlocal, rseen,
               lazyBuilds, hung, rargs, rresult>>
logVars == <<store, now, lpc, largs, lresult, lprior, lwritten, lfault,
             lmaxPending>>
flowVars == <<fmsg, fcreds, fpc, fgated, fgate, fsteps, fpaid, fpaidBeforeGate,
              fattachment, ftext, fsent, fresult,
              flogged, fthrown>>
vars == <<gateVars, flowVars, logVars, indexVars, evVars, lookupVars, chunkVars, matchVars>>

\* what the actions of one component leave alone
notGateVars == <<flowVars, logVars, indexVars, evVars, lookupVars, chunkVars, matchVars>>
notFlowVars == <<gateVars, logVars, indexVars, evVars, lookupVars, chunkVars, matchVars>>
notLogVars == <<gateVars, flowVars, indexVars, evVars, lookupVars, chunkVars, matchVars>>
notIndexVars == <<gateVars, flowVars, logVars, evVars, lookupVars, chunkVars, matchVars>>
notEvVars == <<gateVars, flowVars, logVars, indexVars, lookupVars, chunkVars, matchVars>>
notLookupVars == <<gateVars, flowVars, logVars, indexVars, evVars, chunkVars, matchVars>>
notChunkVars == <<gateVars, flowVars, logVars, indexVars, evVars, lookupVars, matchVars>>
notMatchVars == <<gateVars, flowVars, logVars, indexVars, evVars, lookupVars, chunkVars>>

GateInit ==
  /\ gmsg \in Messages
  /\ gdecision = NoDecision
  /\ gpc = "received"

GateIdle ==
  /\ gmsg = [message |-> <<>>, caption |-> <<>>, hasPhoto |-> FALSE,
             hasDocument |-> FALSE, isForwarded |-> FALSE]
  /\ gdecision = NoDecision
  /\ gpc = "idle"

\* one call of gatekeeperTool.execute
Classify ==
  /\ gpc = "received"
  /\ gdecision' = gatekeeperExecute(gmsg)
  /\ gpc' = "classified"
  /\ UNCHANGED gmsg
  /\ UNCHANGED notGateVars

GateNext == Classify

(* ------------- verification workflows and the agent's run -------------- *)
\* maxSteps of truthSentinelAgent.generate
maxSteps == 10

EmptyText == <<>>
FlowTexts == { EmptyText, <<"h","i">>, <<"E","x","a","m">> }

\* Telegram input, and WhatsApp input read through the same fields:
\* hasPhoto is numMedia > 0, hasFileId is a non-empty mediaUrls, and a
\* WhatsApp message has no caption, document or forwarded flag
FlowMessages ==
  { m \in [platform : {"telegram", "whatsapp"}, message : FlowTexts,
            caption : Captions, hasPhoto : BOOLEAN, hasDocument : BOOLEAN,
            isForwarded : BOOLEAN, hasFileId : BOOLEAN] :
      m.platform = "whatsapp"
        => (m.caption = <<>> /\ ~m.hasDocument /\ ~m.isForwarded) }

\* textContent
textContent(m) ==
  IF m.platform = "telegram"
  THEN IF m.message # <<>> THEN m.message ELSE m.caption
  ELSE m.message

\* the empty-message test at the top of both workflows
isEmptyMessage(m) == textContent(m) = <<>> /\ ~m.hasPhoto /\ ~m.hasDocument

\* the guard of the download branches
downloadsMedia(m, creds) ==
  /\ (m.hasPhoto \/ m.hasDocument)
  /\ m.hasFileId
  /\ creds

\* the arguments the agent hands to gatekeeper-filter
gateContext(m) ==
  [message |-> m.message, caption |-> m.caption, hasPhoto |-> m.hasPhoto,
   hasDocument |-> m.hasDocument, isForwarded |-> m.isForwarded]

FlowInit ==
  /\ fmsg \in FlowMessages
  /\ fcreds \in BOOLEAN
  /\ fpc = "received"
  /\ fgated = FALSE
  /\ fgate = NoDecision
  /\ fsteps = 0
  /\ fpaid = {}
  /\ fpaidBeforeGate = {}
  /\ fattachment = FALSE
  /\ ftext = "none"
  /\ fsent = <<>>
  /\ fresult = "none"
  /\ flogged = 0
  /\ fthrown = "none"

FlowIdle ==
  /\ fmsg = [platform |-> "telegram", message |-> <<>>, caption |-> <<>>,
             hasPhoto |-> FALSE, hasDocument |-> FALSE, isForwarded |-> FALSE,
             hasFileId |-> FALSE]
  /\ fcreds = FALSE
  /\ fpc = "idle"
  /\ fgated = FALSE
  /\ fgate = NoDecision
  /\ fsteps = 0
  /\ fpaid = {}
  /\ fpaidBeforeGate = {}
  /\ fattachment = FALSE
  /\ ftext = "none"
  /\ fsent = <<>>
  /\ fresult = "none"
  /\ flogged = 0
  /\ fthrown = "none"

\* a call to a service outside the process is recorded, and recorded as
\* made before the gatekeeper ran when it was
paidCall(kind) ==
  /\ fpaid' = fpaid \cup {kind}
  /\ fpaidBeforeGate' = IF fgated THEN fpaidBeforeGate
                                  ELSE fpaidBeforeGate \cup {kind}

\* entry of the workflow: the empty-message return, else the prompt is built
FlowStart ==
  /\ fpc = "received"
  /\ IF isEmptyMessage(fmsg)
     THEN fpc' = "done" /\ fresult' = "skippedEmpty"
     ELSE fpc' = "media" /\ fresult' = fresult
  /\ UNCHANGED <<fmsg, fcreds, fgated, fgate, fsteps, fpaid, fpaidBeforeGate,
                 fattachment, ftext, fsent>>
  /\ UNCHANGED <<flogged, fthrown, notFlowVars>>

\* the media download: fetches from the platform when there is media with a
\* file reference and credentials; a failed download is caught and the run
\* goes on without attachment
FlowMedia ==
  /\ fpc = "media"
  /\ IF downloadsMedia(fmsg, fcreds)
     THEN /\ paidCall("mediaDownload")
          /\ fattachment' \in BOOLEAN
     ELSE UNCHANGED <<fpaid, fpaidBeforeGate, fattachment>>
  /\ fpc' = "generate"
  /\ UNCHANGED <<fmsg, fcreds, fgated, fgate, fsteps, ftext, fsent, fresult>>
  /\ UNCHANGED <<flogged, fthrown, notFlowVars>>

\* one step of truthSentinelAgent.generate: a request to the decision model,
\* which throws, or answers with the tool call or the final text its
\* instructions ask for (gatekeeper first; empty text on skip)
AgentStep ==
  /\ fpc = "generate"
  /\ paidCall("decisionModel")
  /\ fsteps' = fsteps + 1
  /\ \/ \* the call rejects, with an Error or with a value that has no
        \* properties (undefined, null)
        /\ fpc' = "failed"
        /\ fthrown' \in {"error", "nullish"}
        /\ UNCHANGED <<fgated, fgate, ftext>>
     \/ \* STEP 1: the gatekeeper-filter tool is run
        /\ ~fgated /\ fsteps + 1 < maxSteps
        /\ fgated' = TRUE
        /\ fgate' = gatekeeperExecute(gateContext(fmsg))
        /\ fpc' = "generate"
        /\ UNCHANGED <<ftext, fthrown>>
     \/ \* gatekeeper said skip: empty response
        /\ fgated /\ ~fgate.shouldProcess
        /\ ftext' = "empty"
        /\ fpc' = "respond"
        /\ UNCHANGED <<fgated, fgate, fthrown>>
     \/ \* an evidence tool is asked for
        /\ fgated /\ fgate.shouldProcess /\ fsteps + 1 < maxSteps
        /\ fpc' = "evidence"
        /\ UNCHANGED <<fgated, fgate, ftext, fthrown>>
     \/ \* the final answer, which may carry no text
        /\ fgated /\ fgate.shouldProcess
        /\ ftext' \in {"verdict", "empty"}
        /\ fpc' = "respond"
        /\ UNCHANGED <<fgated, fgate, fthrown>>
     \/ \* the step budget ends the run before the gatekeeper was called
        /\ ~fgated /\ fsteps + 1 >= maxSteps
        /\ ftext' = "empty"
        /\ fpc' = "respond"
        /\ UNCHANGED <<fgated, fgate, fthrown>>
  /\ UNCHANGED <<fmsg, fcreds, fattachment, fsent, fresult>>
  /\ UNCHANGED <<flogged, notFlowVars>>

\* the tools registered with truthSentinelAgent
agentTools ==
  {"gatekeeperTool", "ragSearchTool", "reloadDocumentsTool",
   "imageAnalysisTool", "exaSearchTool", "universitySearchTool",
   "perplexitySearchTool", "dataFolderCleanupTool", "dataFolderStatusTool",
   "youtubeVerificationTool"}

\* the registered tools that send a request to a service outside the process
networkTools ==
  {"imageAnalysisTool", "exaSearchTool", "universitySearchTool",
   "perplexitySearchTool", "youtubeVerificationTool"}

\* a tool the model asked for runs and hands back its result: a tool of the
\* agent's tool list; log-verification, were it on the list, would append
\* one entry to the learning log
EvidenceTool ==
  /\ fpc = "evidence"
  /\ \E tool \in agentTools \ {"gatekeeperTool"} :
       /\ IF tool \in networkTools
          THEN paidCall("evidenceSearch")
          ELSE UNCHANGED <<fpaid, fpaidBeforeGate>>
       /\ flogged' = IF tool = "logVerificationTool" THEN flogged + 1
                                                     ELSE flogged
  /\ fpc' = "generate"
  /\ UNCHANGED <<fmsg, fcreds, fgated, fgate, fsteps, fattachment, ftext,
                 fsent, fresult, fthrown>>
  /\ UNCHANGED notFlowVars

\* after generate: the text, when there is one, is sent when credentials
\* are configured; the workflow returns
FlowRespond ==
  /\ fpc = "respond"
  /\ fsent' = IF ftext = "verdict" /\ fcreds THEN Append(fsent, "verdict")
                                             ELSE fsent
  /\ fresult' = IF ftext = "verdict" THEN "processed" ELSE "processedNoText"
  /\ fpc' = "done"
  /\ UNCHANGED <<fmsg, fcreds, fgated, fgate, fsteps, fpaid, fpaidBeforeGate,
                 fattachment, ftext>>
  /\ UNCHANGED <<flogged, fthrown, notFlowVars>>

\* the catch block sends the fixed apology and then lets the error go on to
\* the caller
FlowFallbackRethrow ==
  /\ fpc = "failed"
  /\ fsent' = IF fcreds /\ fthrown = "error" THEN Append(fsent, "apology")
                                             ELSE fsent
  /\ fpc' = "rejected"
  /\ UNCHANGED <<fmsg, fcreds, fgated, fgate, fsteps, fpaid, fpaidBeforeGate,
                 fattachment, ftext, fresult>>
  /\ UNCHANGED <<flogged, fthrown, notFlowVars>>

\* the catch block of the workflow logic: reading error.message of a value
\* without properties throws out of the catch block and the logic rejects;
\* else the fixed apology is sent when credentials are configured and the
\* logic returns
FlowFallback ==
  /\ fpc = "failed"
  /\ IF fthrown = "nullish"
     THEN /\ fpc' = "rejected"
          /\ UNCHANGED <<fsent, fresult>>
     ELSE /\ fsent' = IF fcreds THEN Append(fsent, "apology") ELSE fsent
          /\ fresult' = "error"
          /\ fpc' = "done"
  /\ UNCHANGED <<fmsg, fcreds, fgated, fgate, fsteps, fpaid, fpaidBeforeGate,
                 fattachment, ftext>>
  /\ UNCHANGED <<flogged, fthrown, notFlowVars>>

\* the catch block of the trigger handler around the workflow logic: its
\* own apology is sent when credentials are configured
HandlerFallback ==
  /\ fpc = "rejected"
  /\ fsent' = IF fcreds THEN Append(fsent, "handlerApology") ELSE fsent
  /\ fresult' = "handlerError"
  /\ fpc' = "done"
  /\ UNCHANGED <<fmsg, fcreds, fgated, fgate, fsteps, fpaid, fpaidBeforeGate,
                 fattachment, ftext>>
  /\ UNCHANGED <<flogged, fthrown, notFlowVars>>

FlowNext ==
  \/ FlowStart
  \/ FlowMedia
  \/ AgentStep
  \/ EvidenceTool
  \/ FlowRespond
  \/ FlowFallback
  \/ HandlerFallback

(* ------------------- learning log (logVerificationTool) ---------------- *)
LogCalls == 1..NumAppends

\* claims handed to log-verification
LogClaims ==
  { <<"E","x","a","m"," ","o","f","f">>,
    <<"e","x","a","m"," ","o","f","f">>,
    <<"f","e","e","s"," ","u","p">> }

LogVerdicts == {"HOAX", "VERIFIED"}

LogEntry(timestamp, claim, verdict) ==
  [timestamp |-> timestamp, claim |-> claim, verdict |-> verdict,
   sources |-> <<>>, confidence |-> 80]

\* contents the file may hold before the first call
PriorLogs ==
  { <<>>, <<LogEntry(0, <<"f","e","e","s"," ","u","p">>, "HOAX")>> }

NoArgs == [claim |-> <<>>, verdict |-> "none"]
NoResult == [logged |-> FALSE, similarPastCases |-> <<>>]

\* loadLearningLog: the parsed file, or [] when the file is absent or the
\* read or the parse throws
loadLearningLog(st, readOk) ==
  IF st.exists /\ readOk THEN st.logs ELSE <<>>

\* saveLearningLog: the whole array is written; a failing mkdir or write
\* is caught and leaves the file as it was
saveLearningLogNewOnly(st, logs, writeOk) ==
  IF writeOk /\ logs # <<>>
  THEN [exists |-> TRUE, logs |-> <<logs[Len(logs)]>>]
  ELSE st
saveLearningLog(st, logs, writeOk) ==
  IF writeOk THEN [exists |-> TRUE, logs |-> logs] ELSE st

\* new Set(str.split(/\s+/))
wordSet(str) ==
  LET ws == splitWhitespace(str) IN { ws[i] : i \in 1..Len(ws) }

\* calculateSimilarity(str1, str2) > 0.5, the division kept exact:
\* common / max(size1, size2) > 1/2
similarityOfSmaller(str1, str2) ==
  LET words1 == wordSet(str1)
      words2 == wordSet(str2)
      common == Cardinality(words1 \cap words2)
  IN  2 * common >= Min2(Cardinality(words1), Cardinality(words2))
similarityAboveHalf(str1, str2) ==
  LET words1 == wordSet(str1)
      words2 == wordSet(str2)
      common == Cardinality(words1 \cap words2)
  IN  2 * common > Max2(Cardinality(words1), Cardinality(words2))

\* Array.prototype.slice(-5)
lastFive(s) == IF Len(s) <= 5 THEN s ELSE SubSeq(s, Len(s) - 4, Len(s))

\* the filter / slice / map chain that builds similarPastCases
similarCases(logs, claim, newLog) ==
  LET kept == SelectSeq(logs,
                LAMBDA log :
                  /\ similarityAboveHalf(toLowerCase(claim), toLowerCase(log.claim))
                  /\ log.timestamp # newLog.timestamp)
      tail == lastFive(kept)
  IN  [i \in 1..Len(tail) |-> [claim |-> tail[i].claim, verdict |-> tail[i].verdict]]

LogInit ==
  /\ lprior \in PriorLogs
  /\ store \in { [exists |-> TRUE, logs |-> lprior] }
               \cup (IF lprior = <<>> THEN { [exists |-> FALSE, logs |-> <<>>] } ELSE {})
  /\ now = 1
  /\ lpc = [c \in LogCalls |-> "idle"]
  /\ largs = [c \in LogCalls |-> NoArgs]
  /\ lresult = [c \in LogCalls |-> NoResult]
  /\ lwritten = <<>>
  /\ lfault = FALSE
  /\ lmaxPending = 0

LogIdle ==
  /\ lprior = <<>>
  /\ store = [exists |-> FALSE, logs |-> <<>>]
  /\ now = 0
  /\ lpc = [c \in LogCalls |-> "off"]
  /\ largs = [c \in LogCalls |-> NoArgs]
  /\ lresult = [c \in LogCalls |-> NoResult]
  /\ lwritten = <<>>
  /\ lfault = FALSE
  /\ lmaxPending = 0

\* the agent issues a log-verification call; the call waits for its turn on
\* the event loop
LogInvoke(c) ==
  /\ lpc[c] = "idle"
  /\ \E claim \in LogClaims, verdict \in LogVerdicts :
       largs' = [largs EXCEPT ![c] = [claim |-> claim, verdict |-> verdict]]
  /\ lpc' = [lpc EXCEPT ![c] = "pending"]
  /\ lmaxPending' =
       Max2(lmaxPending, Cardinality({ d \in LogCalls : lpc'[d] = "pending" }))
  /\ UNCHANGED <<store, now, lresult, lprior, lwritten, lfault>>
  /\ UNCHANGED notLogVars

\* logVerificationTool.execute: load, push, save and the similarity lookup
\* run with synchronous file calls and no await, in one turn of the event loop
LogExecute(c) ==
  /\ lpc[c] = "pending"
  /\ \E readOk \in BOOLEAN, writeOk \in BOOLEAN :
       LET logs == loadLearningLog(store, readOk)
           newLog == LogEntry(now, largs[c].claim, largs[c].verdict)
           pushed == Append(logs, newLog)
       IN  /\ store' = saveLearningLog(store, pushed, writeOk)
           /\ lresult' = [lresult EXCEPT ![c] =
                 [logged |-> TRUE,
                  similarPastCases |-> similarCases(pushed, largs[c].claim, newLog)]]
           /\ lwritten' = Append(lwritten, newLog)
           /\ lfault' = (lfault \/ ~writeOk \/ (store.exists /\ ~readOk))
  /\ lpc' = [lpc EXCEPT ![c] = "done"]
  /\ UNCHANGED <<now, largs, lprior, lmaxPending>>
  /\ UNCHANGED notLogVars

\* the clock moves on to the next millisecond
Tick ==
  /\ now < MaxTime
  /\ now' = now + 1
  /\ UNCHANGED <<store, lpc, largs, lresult, lprior, lwritten, lfault,
                 lmaxPending>>
  /\ UNCHANGED notLogVars

LogNext ==
  \/ \E c \in LogCalls : LogInvoke(c)
  \/ \E c \in LogCalls : LogExecute(c)
  \/ Tick

(* ---------------------- document index (ragSearchTool) ------------------ *)
DefaultChunkSize == 500
DefaultOverlap == 100
\* chunks.filter((chunk) => chunk.length > 50)
MinChunkLength == 50

\* String.prototype.lastIndexOf(ch, fromIndex), indexes counted from 0
lastIndexOf(text, ch, fromIndex) ==
  LET hits == { k \in 0..Min2(fromIndex, Len(text) - 1) : text[k + 1] = ch }
  IN  IF hits = {} THEN -1 ELSE CHOOSE k \in hits : \A h \in hits : h <= k

\* String.prototype.slice(start, end) with 0 <= end <= length; a negative
\* start counts from the end
slice(text, start, end) ==
  LET from == IF start < 0 THEN Max2(Len(text) + start, 0) ELSE start
  IN  IF from >= end THEN <<>> ELSE SubSeq(text, from + 1, end)

\* one pass of the while loop of chunkText
chunkStep(text, chunkSize, overlap, start, chunks) ==
  LET end == Min2(start + chunkSize, Len(text))
      breakPoint == Max2(lastIndexOf(text, ".", end), lastIndexOf(text, "\n", end))
      chunkEnd == IF end < Len(text) /\ 2 * breakPoint > 2 * start + chunkSize
                  THEN breakPoint + 1
                  ELSE end
  IN  [start |-> chunkEnd - overlap,
       chunks |-> Append(chunks, trim(slice(text, start, chunkEnd)))]

\* the while loop of chunkText; the loop's course depends on start alone, so
\* a start seen before means the loop never ends
RECURSIVE chunkLoop(_, _, _, _, _, _)
chunkLoop(text, chunkSize, overlap, start, chunks, seen) ==
  IF ~(start < Len(text)) THEN [diverges |-> FALSE, chunks |-> chunks]
  ELSE IF start \in seen THEN [diverges |-> TRUE, chunks |-> <<>>]
  ELSE CHOOSE r \in { chunkLoop(text, chunkSize, overlap, st.start, st.chunks,
                                seen \cup {start}) :
                        st \in {chunkStep(text, chunkSize, overlap, start, chunks)} } :
         TRUE

\* chunkText: the chunks, or the fact that the call never returns
chunkText(text, chunkSize, overlap) ==
  LET run == chunkLoop(text, chunkSize, overlap, 0, <<>>, {})
  IN  [diverges |-> run.diverges,
       chunks |-> SelectSeq(run.chunks, LAMBDA chunk : Len(chunk) > MinChunkLength)]

\* String.prototype.endsWith
endsWith(s, suffix) ==
  Len(s) >= Len(suffix) /\ SubSeq(s, Len(s) - Len(suffix) + 1, Len(s)) = suffix

DotPdf == <<".","p","d","f">>
DotTxt == <<".","t","x","t">>

\* the placeholder text pushed for a PDF file
PlaceholderHead ==
  <<"[","P","D","F"," ","D","o","c","u","m","e","n","t",":"," ">>
PlaceholderTail ==
  <<"]"," ","-"," ","T","h","i","s"," ","i","s"," ","a"," ","p","l",
      "a","c","e","h","o","l","d","e","r","."," ","F","o","r"," ","b",
      "e","t","t","e","r"," ","r","e","s","u","l","t","s",","," ","e",
      "x","t","r","a","c","t"," ","t","e","x","t"," ","c","o","n","t",
      "e","n","t"," ","t","o"," ","a"," ",".","t","x","t"," ","f","i",
      "l","e",".">>

pdfPlaceholder(file) ==
  [content |-> PlaceholderHead \o file \o PlaceholderTail,
   source |-> file, chunkIndex |-> 0]

\* textChunks.forEach: the chunks of one text file
fileChunks(file, textChunks) ==
  [i \in 1..Len(textChunks) |->
     [content |-> textChunks[i], source |-> file, chunkIndex |-> i - 1]]

\* loadPDFsFromDirectory: a fresh local array with the chunks of the text
\* files, then one placeholder per PDF; a missing directory is created and
\* gives no chunks; chunkText not returning keeps the call from returning
loadPDFsFromDirectory(dir) ==
  IF ~dir.exists THEN [diverges |-> FALSE, chunks |-> <<>>]
  ELSE
    LET pdfFiles == SelectSeq(dir.files,
                      LAMBDA f : endsWith(toLowerCase(f.name), DotPdf))
        txtFiles == SelectSeq(dir.files,
                      LAMBDA f : endsWith(toLowerCase(f.name), DotTxt))
        cut == [i \in 1..Len(txtFiles) |->
                  chunkText(txtFiles[i].content, DefaultChunkSize, DefaultOverlap)]
        txtChunks == forLoop(LAMBDA acc, i :
                               acc \o fileChunks(txtFiles[i].name, cut[i].chunks),
                             <<>>, 1, Len(txtFiles))
        pdfChunks == [i \in 1..Len(pdfFiles) |-> pdfPlaceholder(pdfFiles[i].name)]
    IN  [diverges |-> \E i \in 1..Len(txtFiles) : cut[i].diverges,
         chunks |-> txtChunks \o pdfChunks]

\* fs.mkdirSync(dataDir) of loadPDFsFromDirectory
afterLoad(dir) == IF dir.exists THEN dir ELSE [exists |-> TRUE, files |-> <<>>]

FileA == [name |-> <<"a",".","p","d","f">>, content |-> <<>>]
FileB == [name |-> <<"b",".","P","D","F">>, content |-> <<>>]
FileE == [name |-> <<"e",".","t","x","t">>, content |-> <<>>]
FileN == [name |-> <<"n",".","t","x","t">>,
          content |-> <<"E","x","a","m"," ","p","o","s","t","p","o","n","e","d"," ","t",
                     "o"," ","D","e","c"," ","5",".">>]

\* states of the data directory: missing, empty, PDFs only, an empty text
\* file, a text file with a sentence in it
Corpora ==
  { [exists |-> FALSE, files |-> <<>>],
    [exists |-> TRUE, files |-> <<>>],
    [exists |-> TRUE, files |-> <<FileA>>],
    [exists |-> TRUE, files |-> <<FileA, FileB>>],
    [exists |-> TRUE, files |-> <<FileA, FileE>>],
    [exists |-> TRUE, files |-> <<FileA, FileN>>] }

\* the characters of the class \w
WordChars ==
  { UpperChars[i] : i \in 1..Len(UpperChars) } \cup
  { LowerChars[i] : i \in 1..Len(LowerChars) } \cup
  { "0", "1", "2", "3", "4", "5", "6", "7", "8", "9", "_" }

\* text.replace(/[^\w\s]/g, " ")
replaceNonWord(text) ==
  [i \in 1..Len(text) |->
     IF text[i] \in WordChars \/ isSpace(text[i]) THEN text[i] ELSE " "]

\* words shorter than this are dropped by simpleTokenize
MinTokenLength == 3

\* simpleTokenize
simpleTokenize(text) ==
  SelectSeq(splitWhitespace(replaceNonWord(toLowerCase(text))),
            LAMBDA word : Len(word) >= MinTokenLength)

\* the inner test looks in one direction only
twiceMatchCountOneWay(queryTokens, docTokenSet) ==
  2 * Cardinality(queryTokens \cap docTokenSet) +
  Cardinality({ pair \in queryTokens \X docTokenSet :
                  includes(pair[2], pair[1]) })

\* twice the matchCount of calculateSimilarity: 2 for a query token that is a
\* document token, 1 for every pair of a query token and a distinct document
\* token of which one contains the other
twiceMatchCount(queryTokens, docTokenSet) ==
  2 * Cardinality(queryTokens \cap docTokenSet) +
  Cardinality({ pair \in queryTokens \X docTokenSet :
                  includes(pair[2], pair[1]) \/ includes(pair[1], pair[2]) })

\* calculateSimilarity, as the exact fraction num / den
calculateSimilarity(query, document) ==
  LET qs == simpleTokenize(query)
      ds == simpleTokenize(document)
      queryTokens == { qs[i] : i \in 1..Len(qs) }
      docTokenSet == { ds[i] : i \in 1..Len(ds) }
  IN  [num |-> twiceMatchCount(queryTokens, docTokenSet),
       den |-> 2 * Max2(Cardinality(queryTokens), 1)]

\* a.relevanceScore < b.relevanceScore
scoreBelow(a, b) == a.num * b.den < b.num * a.den

\* Array.prototype.sort with (a, b) => b.relevanceScore - a.relevanceScore:
\* a stable sort, here by insertion; each element goes behind the elements
\* that do not score below it
insertByScore(sorted, item) ==
  LET before == { k \in 0..Len(sorted) :
                    \A j \in 1..k : ~scoreBelow(sorted[j].relevanceScore,
                                                item.relevanceScore) }
      at == CHOOSE k \in before : \A h \in before : h <= k
  IN  SubSeq(sorted, 1, at) \o <<item>> \o SubSeq(sorted, at + 1, Len(sorted))

sortByScore(scored) ==
  forLoop(LAMBDA sorted, i : insertByScore(sorted, scored[i]), <<>>, 1, Len(scored))

\* context.topK || 3
DefaultTopK == 3
effectiveTopK(topK) == IF topK = 0 THEN DefaultTopK ELSE topK

\* Math.round(score * 100) / 100, in hundredths
roundedScore(score) == (200 * score.num + score.den) \div (2 * score.den)

\* r.relevanceScore > 0.1
isRelevant(score) == 10 * score.num > score.den

\* the part of ragSearchTool.execute behind the index check: the early
\* return for an empty index, else score, sort, slice and map
searchResult(chunks, args) ==
  IF Len(chunks) = 0
  THEN [results |-> <<>>, totalDocuments |-> 0, hasRelevantResults |-> FALSE]
  ELSE
    LET scoredChunks == sortByScore(
          [i \in 1..Len(chunks) |->
             [content |-> chunks[i].content, source |-> chunks[i].source,
              relevanceScore |-> calculateSimilarity(args.query, chunks[i].content)]])
        topResults == SubSeq(scoredChunks, 1,
                             Min2(effectiveTopK(args.topK), Len(scoredChunks)))
    IN  [results |-> [i \in 1..Len(topResults) |->
                        [content |-> topResults[i].content,
                         source |-> topResults[i].source,
                         relevanceScore |-> roundedScore(topResults[i].relevanceScore)]],
         totalDocuments |-> Len(chunks),
         hasRelevantResults |->
           \E i \in 1..Len(topResults) : isRelevant(topResults[i].relevanceScore)]

Requests == 1..NumRequests

QueryExamPostponed ==
  <<"i","s"," ","e","x","a","m"," ","p","o","s","t","p","o","n","e",
    "d">>

\* the arguments of a rag-search call where the claims do not vary them
DefaultSearchArgs == [query |-> QueryExamPostponed, topK |-> DefaultTopK]
NoSearchResult == [results |-> <<>>, totalDocuments |-> 0,
                   hasRelevantResults |-> FALSE]

IndexInit ==
  /\ corpus \in Corpora
  /\ documentChunks = <<>>
  /\ isInitialized = FALSE
  /\ rpc = [q \in Requests |-> "idle"]
  /\ rkind = [q \in Requests |-> "none"]
  /\ rlocal = [q \in Requests |-> <<>>]
  /\ rseen = [q \in Requests |-> <<>>]
  /\ lazyBuilds = 0
  /\ hung = FALSE
  /\ rargs = [q \in Requests |-> DefaultSearchArgs]
  /\ rresult = [q \in Requests |-> NoSearchResult]

IndexIdle ==
  /\ corpus = [exists |-> FALSE, files |-> <<>>]
  /\ documentChunks = <<>>
  /\ isInitialized = FALSE
  /\ rpc = [q \in Requests |-> "off"]
  /\ rkind = [q \in Requests |-> "none"]
  /\ rlocal = [q \in Requests |-> <<>>]
  /\ rseen = [q \in Requests |-> <<>>]
  /\ lazyBuilds = 0
  /\ hung = FALSE
  /\ rargs = [q \in Requests |-> DefaultSearchArgs]
  /\ rresult = [q \in Requests |-> NoSearchResult]

\* what the module-level index is set to when a build is awaited
publishLast(local) == IF local = <<>> THEN <<>> ELSE <<local[Len(local)]>>
publish(local) == local

\* ragSearchTool.execute up to its await: with an index in place the chunks
\* are scored and the call returns; otherwise the directory is read and cut
\* into a local array, and the call waits on the await
QueryStart(q) ==
  /\ ~hung
  /\ rpc[q] = "idle"
  /\ rkind' = [rkind EXCEPT ![q] = "query"]
  /\ IF ~isInitialized \/ Len(documentChunks) = 0
     THEN LET built == loadPDFsFromDirectory(corpus)
          IN  IF built.diverges
              THEN /\ hung' = TRUE
                   /\ rpc' = [rpc EXCEPT ![q] = "building"]
                   /\ UNCHANGED <<corpus, rlocal, lazyBuilds, rseen, rresult>>
              ELSE /\ rlocal' = [rlocal EXCEPT ![q] = built.chunks]
                   /\ corpus' = afterLoad(corpus)
                   /\ rpc' = [rpc EXCEPT ![q] = "awaitLoad"]
                   /\ lazyBuilds' = IF isInitialized THEN lazyBuilds
                                                     ELSE lazyBuilds + 1
                   /\ UNCHANGED <<hung, rseen, rresult>>
     ELSE /\ rseen' = [rseen EXCEPT ![q] = documentChunks]
          /\ rresult' = [rresult EXCEPT ![q] = searchResult(documentChunks, rargs[q])]
          /\ rpc' = [rpc EXCEPT ![q] = "done"]
          /\ UNCHANGED <<corpus, rlocal, lazyBuilds, hung>>
  /\ UNCHANGED <<documentChunks, isInitialized, rargs>>
  /\ UNCHANGED notIndexVars

\* ragSearchTool.execute after its await: the finished array replaces the
\* index, the flag is set, the chunks are scored and the call returns
QueryResume(q) ==
  /\ ~hung
  /\ rpc[q] = "awaitLoad" /\ rkind[q] = "query"
  /\ documentChunks' = publish(rlocal[q])
  /\ isInitialized' = TRUE
  /\ rseen' = [rseen EXCEPT ![q] = documentChunks']
  /\ rresult' = [rresult EXCEPT ![q] = searchResult(documentChunks', rargs[q])]
  /\ rpc' = [rpc EXCEPT ![q] = "done"]
  /\ UNCHANGED <<corpus, rkind, rlocal, lazyBuilds, hung, rargs>>
  /\ UNCHANGED notIndexVars

\* reloadDocumentsTool.execute up to its await
ReloadStart(q) ==
  /\ ~hung
  /\ rpc[q] = "idle"
  /\ rkind' = [rkind EXCEPT ![q] = "reload"]
  /\ LET built == loadPDFsFromDirectory(corpus)
     IN  IF built.diverges
         THEN /\ hung' = TRUE
              /\ rpc' = [rpc EXCEPT ![q] = "building"]
              /\ UNCHANGED <<corpus, rlocal>>
         ELSE /\ rlocal' = [rlocal EXCEPT ![q] = built.chunks]
              /\ corpus' = afterLoad(corpus)
              /\ rpc' = [rpc EXCEPT ![q] = "awaitLoad"]
              /\ UNCHANGED hung
  /\ UNCHANGED <<documentChunks, isInitialized, rseen, lazyBuilds, rargs,
                 rresult>>
  /\ UNCHANGED notIndexVars

\* reloadDocumentsTool.execute after its await
ReloadResume(q) ==
  /\ ~hung
  /\ rpc[q] = "awaitLoad" /\ rkind[q] = "reload"
  /\ documentChunks' = publish(rlocal[q])
  /\ isInitialized' = TRUE
  /\ rpc' = [rpc EXCEPT ![q] = "done"]
  /\ UNCHANGED <<corpus, rkind, rlocal, rseen, lazyBuilds, hung, rargs,
                 rresult>>
  /\ UNCHANGED notIndexVars

\* files are added to or removed from the data directory
ChangeCorpus ==
  /\ ~hung
  /\ \E dir \in Corpora : dir # corpus /\ corpus' = dir
  /\ UNCHANGED <<documentChunks, isInitialized, rpc, rkind, rlocal, rseen,
                 lazyBuilds, hung, rargs, rresult>>
  /\ UNCHANGED notIndexVars

IndexNext ==
  \/ \E q \in Requests : QueryStart(q)
  \/ \E q \in Requests : QueryResume(q)
  \/ \E q \in Requests : ReloadStart(q)
  \/ \E q \in Requests : ReloadResume(q)
  \/ ChangeCorpus

(* ------------- evidence tools (exa, university, perplexity, youtube) ---- *)
\* first position at or after from where sub starts in s, 0 when there is none
indexOf(s, sub, from) ==
  LET hits == { i \in from..(Len(s) - Len(sub) + 1) :
                  SubSeq(s, i, i + Len(sub) - 1) = sub }
  IN  IF hits = {} THEN 0 ELSE CHOOSE i \in hits : \A h \in hits : i <= h

\* new URL(url).hostname for absolute URLs without user info or port: a
\* string without a scheme and "://" is rejected, the host runs to the next
\* "/" and is lower-cased
parseURL(url) ==
  LET sep == indexOf(url, <<":","/","/">>, 1)
      rest == SubSeq(url, sep + 3, Len(url))
      slash == indexOf(rest, <<"/">>, 1)
      host == IF slash = 0 THEN rest ELSE SubSeq(rest, 1, slash - 1)
  IN  IF sep <= 1 \/ host = <<>>
      THEN [ok |-> FALSE, hostname |-> <<>>]
      ELSE [ok |-> TRUE, hostname |-> toLowerCase(host)]

\* the domain lists of universitySearchTool
officialDomains(university) ==
  CASE university = "mumbai" ->
         << <<"m","u",".","a","c",".","i","n">>,
         <<"m","u","m",".","d","i","g","i","t","a","l","u","n","i","v","e",
           "r","s","i","t","y",".","a","c">>,
         <<"m","k","u","n","i","v","e","r","s","i","t","y",".","a","c",".",
           "i","n">> >>
    [] university = "ugc" ->
         << <<"u","g","c",".","a","c",".","i","n">>,
         <<"e","d","u","c","a","t","i","o","n",".","g","o","v",".","i","n">>,
         <<"a","i","c","t","e","-","i","n","d","i","a",".","o","r","g">> >>
    [] OTHER ->
         << <<"m","u",".","a","c",".","i","n">>,
         <<"u","g","c",".","a","c",".","i","n">>,
         <<"e","d","u","c","a","t","i","o","n",".","g","o","v",".","i","n">>,
         <<"a","i","c","t","e","-","i","n","d","i","a",".","o","r","g">>,
         <<"m","u","m",".","d","i","g","i","t","a","l","u","n","i","v","e",
           "r","s","i","t","y",".","a","c">> >>

\* result.text?.substring(0, cap) || fallback, as the length of the string
contentLength(textLength, cap, fallbackLength) ==
  IF textLength = 0 THEN fallbackLength ELSE Min2(textLength, cap)

ExaContentCap == 1500
\* "No content available"
ExaNoContentLength == 20
UniversityContentCap == 1200
\* "No content"
UniversityNoContentLength == 10
\* r.content.length > 100
OfficialContentLength == 100

\* the map callback of exaSearchTool
exaItem(result) ==
  [url |-> result.url,
   contentLength |-> contentLength(result.textLength, ExaContentCap,
                                   ExaNoContentLength)]

\* the map callback of universitySearchTool, for a URL that parses
universityItem(result, domains) ==
  LET domain == parseURL(result.url).hostname
  IN  [url |-> result.url,
       contentLength |-> contentLength(result.textLength, UniversityContentCap,
                                       UniversityNoContentLength),
       source |-> domain,
       isOfficial |-> \E d \in 1..Len(domains) : includes(domain, domains[d])]

\* the characters of the class [0-9A-Za-z_-]
IdChars ==
  { UpperChars[i] : i \in 1..Len(UpperChars) } \cup
  { LowerChars[i] : i \in 1..Len(LowerChars) } \cup
  { "0", "1", "2", "3", "4", "5", "6", "7", "8", "9", "_", "-" }

VideoIdLength == 11

\* eleven characters of the class starting at position from
idAt(url, from) ==
  /\ from + VideoIdLength - 1 <= Len(url)
  /\ \A k \in from..(from + VideoIdLength - 1) : url[k] \in IdChars

\* videoUrl.match(/(?:v=|\/)([0-9A-Za-z_-]{11}).*/): the leftmost "v=" or "/"
\* that eleven characters of the class follow
videoIdOf(url) ==
  LET viaParam == { i \in 1..Len(url) :
                      /\ i + 1 <= Len(url)
                      /\ url[i] = "v" /\ url[i + 1] = "="
                      /\ idAt(url, i + 2) }
      viaSlash == { i \in 1..Len(url) : url[i] = "/" /\ idAt(url, i + 1) }
      starts == viaParam \cup viaSlash
      first == CHOOSE i \in starts : \A h \in starts : i <= h
      at == IF first \in viaParam THEN first + 2 ELSE first + 1
  IN  IF starts = {} THEN [matched |-> FALSE, id |-> <<>>]
      ELSE [matched |-> TRUE, id |-> SubSeq(url, at, at + VideoIdLength - 1)]

\* what a tool gives back: either its return value or a thrown error
returned(out) == [threw |-> FALSE, out |-> out]
thrown == [threw |-> TRUE, out |-> [error |-> "YOUTUBE_API_KEY is missing"]]
NoOutcome == [threw |-> FALSE, out |-> [none |-> TRUE]]

\* exaSearchTool.execute
exaExecute(key, world) ==
  IF ~key
  THEN returned([results |-> <<>>, hasResults |-> FALSE])
  ELSE IF world.kind # "ok"
  THEN returned([results |-> <<>>, hasResults |-> FALSE])
  ELSE LET results == [i \in 1..Len(world.results) |-> exaItem(world.results[i])]
       IN  returned([results |-> results, hasResults |-> Len(results) > 0])

\* universitySearchTool.execute
universityExecute(key, args, world) ==
  LET domains == officialDomains(args.university)
  IN  IF ~key
      THEN returned([results |-> <<>>, hasOfficialInfo |-> FALSE,
                     sourcesChecked |-> <<>>])
      ELSE IF \/ world.kind # "ok"
              \/ \E i \in 1..Len(world.results) : ~parseURL(world.results[i].url).ok
      THEN returned([results |-> <<>>, hasOfficialInfo |-> FALSE,
                     sourcesChecked |-> domains])
      ELSE LET results == [i \in 1..Len(world.results) |->
                             universityItem(world.results[i], domains)]
           IN  returned([results |-> results,
                         hasOfficialInfo |->
                           \E i \in 1..Len(results) :
                             /\ results[i].isOfficial
                             /\ results[i].contentLength > OfficialContentLength,
                         sourcesChecked |-> domains])

\* perplexitySearchTool.execute
perplexityExecute(key, world) ==
  IF ~key
  THEN returned([content |-> "skipped, API key missing", citations |-> <<>>])
  ELSE IF world.kind = "apiError"
  THEN returned([content |-> "API error", citations |-> <<>>])
  ELSE IF world.kind # "ok"
  THEN returned([content |-> "failed, network/system error", citations |-> <<>>])
  ELSE returned([content |-> IF world.hasContent THEN "answer"
                                                 ELSE "No response content",
                 citations |-> world.citations])

\* the verdict of the early returns and of the catch block of
\* youtubeVerificationTool
failureVerdict == "HOAX"

\* youtubeVerificationTool.execute
youtubeExecute(key, args, world) ==
  IF ~key
  THEN thrown
  ELSE IF ~videoIdOf(args.videoUrl).matched
  THEN returned([isValid |-> FALSE, videoTitle |-> "Unknown",
                 summary |-> "Invalid YouTube URL provided.",
                 verdict |-> failureVerdict, transcript |-> "none"])
  ELSE IF world.kind \in {"fault", "malformed"}
  THEN returned([isValid |-> FALSE, videoTitle |-> "Error",
                 summary |-> "Failed to verify video",
                 verdict |-> failureVerdict, transcript |-> "none"])
  ELSE IF world.kind = "apiError" \/ ~world.hasItem
  THEN returned([isValid |-> FALSE, videoTitle |-> "Video Not Found",
                 summary |-> "Video does not exist or is private.",
                 verdict |-> failureVerdict, transcript |-> "none"])
  ELSE returned([isValid |-> TRUE, videoTitle |-> "title",
                 summary |-> "Video content fetched.",
                 verdict |-> "PENDING_AGENT_REVIEW",
                 transcript |-> IF world.hasTranscript THEN "text"
                                ELSE "Transcript not available."])

Tools == {"exa", "university", "perplexity", "youtube"}

ResultUrls ==
  { <<>>,
    <<"h","t","t","p","s",":","/","/","m","u",".","a","c",".","i","n",
      "/","n">>,
    <<"h","t","t","p","s",":","/","/","e","x","a","m",".","M","U",".",
      "a","c",".","i","n","/","r">>,
    <<"h","t","t","p","s",":","/","/","m","u",".","a","c",".","i","n",
      ".","e","x","a","m","p","l","e",".","c","o","m","/","n">>,
    <<"h","t","t","p","s",":","/","/","e","x","a","m","p","l","e",".",
      "c","o","m","/","a">>,
    <<"n","o","t","i","c","e">> }

\* the result items a search service may send: a URL (possibly missing or
\* not a URL) and the length of the page text (0: no text)
RawItems == [url : ResultUrls, textLength : {0, 150, 1300}]

Responses == UNION { [1..n -> RawItems] : n \in 0..MaxItems }

VideoUrls ==
  { <<"h","t","t","p","s",":","/","/","y","o","u","t","u",".","b","e",
      "/","d","Q","w","4","w","9","W","g","X","c","Q">>,
    <<"h","t","t","p","s",":","/","/","y","o","u","t","u","b","e",".",
      "c","o","m","/","w","a","t","c","h","?","v","=","d","Q","w","4",
      "w","9","W","g","X","c","Q">>,
    <<"y","o","u","t","u","b","e">> }

Citations == { <<>>, <<"https://mu.ac.in/notice">> }

\* what the remote service does with a request: a network fault, an API
\* error, a malformed body, or a well-formed answer
SearchWorlds ==
  [kind : {"fault", "apiError", "malformed"}, results : {<<>>}] \cup
  [kind : {"ok"}, results : Responses]

PerplexityWorlds ==
  [kind : {"fault", "apiError", "malformed"}, hasContent : {FALSE},
   citations : {<<>>}] \cup
  [kind : {"ok"}, hasContent : BOOLEAN, citations : Citations]

YoutubeWorlds ==
  [kind : {"fault", "apiError", "malformed"}, hasItem : {FALSE},
   hasTranscript : {FALSE}] \cup
  [kind : {"ok"}, hasItem : BOOLEAN, hasTranscript : BOOLEAN]

NoWorld == [kind |-> "none"]
NoEvArgs == [none |-> TRUE]

EvInit ==
  /\ etool = "none"
  /\ ekey = FALSE
  /\ eargs = NoEvArgs
  /\ eworld = NoWorld
  /\ epc = "idle"
  /\ eresult = NoOutcome

EvIdle ==
  /\ etool = "none"
  /\ ekey = FALSE
  /\ eargs = NoEvArgs
  /\ eworld = NoWorld
  /\ epc = "off"
  /\ eresult = NoOutcome

\* the agent calls one of the tools; the process may or may not have the
\* tool's API key in its environment
EvCall ==
  /\ epc = "idle"
  /\ etool' \in Tools
  /\ ekey' \in BOOLEAN
  /\ eargs' \in CASE etool' = "university" ->
                    [university : {"", "mumbai", "general", "ugc"}]
               [] etool' = "youtube" -> [videoUrl : VideoUrls]
               [] OTHER -> {NoEvArgs}
  /\ epc' = "called"
  /\ UNCHANGED <<eworld, eresult>>
  /\ UNCHANGED notEvVars

ExaSearch ==
  /\ epc = "called" /\ etool = "exa"
  /\ \E world \in SearchWorlds :
       /\ eworld' = world
       /\ eresult' = exaExecute(ekey, world)
  /\ epc' = "done"
  /\ UNCHANGED <<etool, ekey, eargs>>
  /\ UNCHANGED notEvVars

UniversitySearch ==
  /\ epc = "called" /\ etool = "university"
  /\ \E world \in SearchWorlds :
       /\ eworld' = world
       /\ eresult' = universityExecute(ekey, eargs, world)
  /\ epc' = "done"
  /\ UNCHANGED <<etool, ekey, eargs>>
  /\ UNCHANGED notEvVars

PerplexitySearch ==
  /\ epc = "called" /\ etool = "perplexity"
  /\ \E world \in PerplexityWorlds :
       /\ eworld' = world
       /\ eresult' = perplexityExecute(ekey, world)
  /\ epc' = "done"
  /\ UNCHANGED <<etool, ekey, eargs>>
  /\ UNCHANGED notEvVars

YoutubeVerify ==
  /\ epc = "called" /\ etool = "youtube"
  /\ \E world \in YoutubeWorlds :
       /\ eworld' = world
       /\ eresult' = youtubeExecute(ekey, eargs, world)
  /\ epc' = "done"
  /\ UNCHANGED <<etool, ekey, eargs>>
  /\ UNCHANGED notEvVars

EvNext ==
  \/ EvCall
  \/ ExaSearch
  \/ UniversitySearch
  \/ PerplexitySearch
  \/ YoutubeVerify

(* ---------- similarity lookup of one call (logVerificationTool) --------- *)
ClaimDecember ==
  <<"E","x","a","m"," ","p","o","s","t","p","o","n","e","d"," ","t",
    "o"," ","D","e","c","e","m","b","e","r">>
ClaimExamsDec5th ==
  <<"E","x","a","m","s"," ","p","o","s","t","p","o","n","e","d"," ",
    "t","o"," ","D","e","c"," ","5","t","h">>
ClaimExamDec5th ==
  <<"E","x","a","m"," ","p","o","s","t","p","o","n","e","d"," ","t",
    "o"," ","D","e","c"," ","5","t","h">>
ClaimHostel ==
  <<"H","o","s","t","e","l"," ","f","e","e","s"," ","i","n","c","r",
    "e","a","s","e","d">>
ClaimShouting ==
  <<"E","X","A","M"," ","P","O","S","T","P","O","N","E","D"," "," ",
    "T","O"," ","D","E","C","E","M","B","E","R">>

LookupClaims ==
  {ClaimDecember, ClaimExamsDec5th, ClaimExamDec5th, ClaimHostel, ClaimShouting}

\* learning logs of at most MaxPrior entries, written at the times 1, 2, ...
LookupLogs ==
  UNION { { [i \in 1..n |-> LogEntry(i, cs[i], "HOAX")] :
              cs \in [1..n -> LookupClaims] } : n \in 0..MaxPrior }

NoCases == <<>>

LookupInit ==
  /\ qprior \in LookupLogs
  /\ qstore = [exists |-> TRUE, logs |-> qprior]
  /\ qclaim \in LookupClaims
  /\ qnow \in {Len(qprior), Len(qprior) + 1} \ {0}
  /\ qcases = NoCases
  /\ qpc = "pending"

LookupIdle ==
  /\ qprior = <<>>
  /\ qstore = [exists |-> FALSE, logs |-> <<>>]
  /\ qclaim = <<>>
  /\ qnow = 0
  /\ qcases = NoCases
  /\ qpc = "off"

\* logVerificationTool.execute on a file that reads and writes without
\* error: load, push, save, then the similarity lookup over the pushed array
Lookup ==
  /\ qpc = "pending"
  /\ LET logs == loadLearningLog(qstore, TRUE)
         newLog == LogEntry(qnow, qclaim, "HOAX")
         pushed == Append(logs, newLog)
     IN  /\ qstore' = saveLearningLog(qstore, pushed, TRUE)
         /\ qcases' = similarCases(pushed, qclaim, newLog)
  /\ qpc' = "done"
  /\ UNCHANGED <<qprior, qclaim, qnow>>
  /\ UNCHANGED notLookupVars

LookupNext == Lookup

(* ------------------ chunkText, one loop pass per step ------------------- *)
\* a text of n characters: words of eight letters, and a full stop at every
\* position that is a multiple of every (no full stop when every = 0)
textOf(n, every) ==
  [k \in 1..n |-> IF every > 0 /\ k % every = 0 THEN "."
                  ELSE IF k % 9 = 0 THEN " " ELSE "a"]

TextLengths == {0, 1, 50, 51, 150, 501, 600, 900, 1200}
PeriodSpacings == {0, 25, 40, 333, 450}

\* contents of the text files handed to chunkText
ChunkTexts == { textOf(n, every) : n \in TextLengths, every \in PeriodSpacings }

ChunkInit ==
  /\ ctext \in ChunkTexts
  /\ cstart = 0
  /\ cchunks = <<>>
  /\ cwindows = <<>>
  /\ cseen = {}
  /\ cout = <<>>
  /\ cpc = "loop"

ChunkIdle ==
  /\ ctext = <<>>
  /\ cstart = 0
  /\ cchunks = <<>>
  /\ cwindows = <<>>
  /\ cseen = {}
  /\ cout = <<>>
  /\ cpc = "off"

\* one pass of the while loop: a window is cut, trimmed and pushed, and
\* start moves to chunkEnd - overlap
ChunkPass ==
  /\ cpc = "loop"
  /\ cstart < Len(ctext)
  /\ cstart \notin cseen
  /\ LET st == chunkStep(ctext, DefaultChunkSize, DefaultOverlap, cstart, cchunks)
     IN  /\ cstart' = st.start
         /\ cchunks' = st.chunks
         /\ cwindows' = Append(cwindows,
                           [from |-> IF cstart < 0
                                     THEN Max2(Len(ctext) + cstart, 0)
                                     ELSE cstart,
                            to |-> st.start + DefaultOverlap])
  /\ cseen' = cseen \cup {cstart}
  /\ UNCHANGED <<ctext, cout, cpc>>
  /\ UNCHANGED notChunkVars

\* the loop is at a start it has been at before with the text unchanged:
\* every later pass repeats, the call never returns
ChunkRepeat ==
  /\ cpc = "loop"
  /\ cstart < Len(ctext)
  /\ cstart \in cseen
  /\ cpc' = "spinning"
  /\ UNCHANGED <<ctext, cstart, cchunks, cwindows, cseen, cout>>
  /\ UNCHANGED notChunkVars

\* the loop ends; the chunks longer than 50 characters are returned
ChunkReturn ==
  /\ cpc = "loop"
  /\ ~(cstart < Len(ctext))
  /\ cout' = SelectSeq(cchunks, LAMBDA chunk : Len(chunk) > MinChunkLength)
  /\ cpc' = "returned"
  /\ UNCHANGED <<ctext, cstart, cchunks, cwindows, cseen>>
  /\ UNCHANGED notChunkVars

ChunkNext ==
  \/ ChunkPass
  \/ ChunkRepeat
  \/ ChunkReturn

(* ------------- one rag-search call with its arguments varied ------------ *)
FileExam == [name |-> <<"e","x","a","m",".","p","d","f">>, content |-> <<>>]
FileFees == [name |-> <<"f","e","e","s",".","p","d","f">>, content |-> <<>>]
FileExamFees ==
  [name |-> <<"e","x","a","m","-","f","e","e","s",".","p","d","f">>,
   content |-> <<>>]
\* a text file of one sentence that holds "exam postponed to Dec 5"
FilePhrase ==
  [name |-> <<"n","o","t","i","c","e",".","t","x","t">>,
   content |->
     <<"N","o","t","i","c","e",":"," ","t","h","e"," ","u","n","i","v",
       "e","r","s","i","t","y"," ","e","x","a","m"," ","p","o","s","t",
       "p","o","n","e","d"," ","t","o"," ","D","e","c"," ","5"," ","f",
       "o","r"," ","a","l","l"," ","f","i","r","s","t"," ","y","e","a",
       "r"," ","s","t","u","d","e","n","t","s",".">>]

DirPhrase == [exists |-> TRUE, files |-> <<FilePhrase>>]

SearchCorpora ==
  { [exists |-> FALSE, files |-> <<>>],
    [exists |-> TRUE, files |-> <<>>],
    [exists |-> TRUE, files |-> <<FileExam>>],
    [exists |-> TRUE, files |-> <<FileFees, FileExam>>],
    [exists |-> TRUE, files |-> <<FileFees, FileExam, FileA>>],
    [exists |-> TRUE, files |-> <<FileA, FileFees, FileExamFees, FileExam>>],
    [exists |-> TRUE, files |-> <<FilePhrase, FileExam>>],
    DirPhrase }

SearchQueries ==
  { QueryExamPostponed,
    <<"e","x","a","m"," ","f","e","e","s">>,
    <<"p","d","f"," ","d","o","c","u","m","e","n","t">>,
    <<"e","x","a","m","_","f","e","e","s">>,
    <<>> }

\* requested topK; an absent topK arrives as the schema default 3
SearchTopKs == {0, 1, 2, 3, 5}

\* one call, request 1, on an index not yet built
SearchInit ==
  /\ corpus \in SearchCorpora
  /\ documentChunks = <<>>
  /\ isInitialized = FALSE
  /\ rpc = [q \in Requests |-> IF q = 1 THEN "idle" ELSE "off"]
  /\ rkind = [q \in Requests |-> "none"]
  /\ rlocal = [q \in Requests |-> <<>>]
  /\ rseen = [q \in Requests |-> <<>>]
  /\ lazyBuilds = 0
  /\ hung = FALSE
  /\ rargs \in { [q \in Requests |-> IF q = 1 THEN a ELSE DefaultSearchArgs] :
                    a \in [query : SearchQueries, topK : SearchTopKs] }
  /\ rresult = [q \in Requests |-> NoSearchResult]

SearchNext ==
  \/ \E q \in Requests : QueryStart(q)
  \/ \E q \in Requests : QueryResume(q)
  \/ \E q \in Requests : ReloadStart(q)
  \/ \E q \in Requests : ReloadResume(q)

(* ------------- the lexical matcher applied to chosen strings ------------ *)
\* words: empty, shorter than 4, keywords, misspellings at distance 1, 2 and
\* 3, a keyword inside a longer word, unrelated words
MatchWords ==
  { <<>>,
    <<"a">>,
    <<"e","x","m">>,
    <<"e","x","a","m">>,
    <<"e","x","a","n">>,
    <<"e","x","m","a">>,
    <<"e","x","a","m","s">>,
    <<"n","o","t","i","s","e">>,
    <<"n","o","t","c","e">>,
    <<"n","o","t","e","s">>,
    <<"h","o","l","l","i","d","a","y">>,
    <<"h","o","l","y","d","e","y">>,
    <<"h","o","i","l","d","e","y">>,
    <<"p","o","s","t","p","o","n","d">>,
    <<"p","o","s","t","p","o","n","n","e","d","d">>,
    <<"p","r","e","p","o","n","e","d">>,
    <<"k","i","t","t","e","n">>,
    <<"l","u","n","c","h">>,
    <<"r","e","e","x","a","m","s">> }

MatchTerms ==
  { <<>>,
    <<"f","e","e">>,
    <<"e","x","a","m">>,
    <<"n","o","t","i","c","e">>,
    <<"h","o","l","i","d","a","y">>,
    <<"p","o","s","t","p","o","n","e","d">>,
    <<"s","i","t","t","i","n","g">>,
    <<"r","e","e","x","a","m","i","n","a","t","i","o","n">> }

MatchDistances == 0..3

NoDistance == 0 - 1

MatchInit ==
  /\ mword \in MatchWords
  /\ mterm \in MatchTerms
  /\ mmax \in MatchDistances
  /\ mmatched = FALSE
  /\ mdistance = NoDistance
  /\ mpc = "ready"

MatchIdle ==
  /\ mword = <<>>
  /\ mterm = <<>>
  /\ mmax = 0
  /\ mmatched = FALSE
  /\ mdistance = NoDistance
  /\ mpc = "off"

\* a call fuzzyMatchKeyword(word, term, maxDistance)
MatchKeyword ==
  /\ mpc = "ready"
  /\ mmatched' = fuzzyMatchKeyword(mword, mterm, mmax)
  /\ mpc' = "matched"
  /\ UNCHANGED <<mword, mterm, mmax, mdistance>>
  /\ UNCHANGED notMatchVars

\* a call levenshteinDistance(word, term)
MeasureDistance ==
  /\ mpc = "ready"
  /\ mdistance' = levenshteinDistance(mword, mterm)
  /\ mpc' = "measured"
  /\ UNCHANGED <<mword, mterm, mmax, mmatched>>
  /\ UNCHANGED notMatchVars

MatchNext ==
  \/ MatchKeyword
  \/ MeasureDistance

\* each specification runs one component; the others stay switched off
InitGate == GateInit /\ FlowIdle /\ LogIdle /\ IndexIdle /\ EvIdle /\ LookupIdle /\ ChunkIdle /\ MatchIdle
SpecGate == InitGate /\ [][GateNext]_vars

InitFlow == FlowInit /\ GateIdle /\ LogIdle /\ IndexIdle /\ EvIdle /\ LookupIdle /\ ChunkIdle /\ MatchIdle
SpecFlow == InitFlow /\ [][FlowNext]_vars

InitLog == LogInit /\ GateIdle /\ FlowIdle /\ IndexIdle /\ EvIdle /\ LookupIdle /\ ChunkIdle /\ MatchIdle
SpecLog == InitLog /\ [][LogNext]_vars

InitIndex == IndexInit /\ GateIdle /\ FlowIdle /\ LogIdle /\ EvIdle /\ LookupIdle /\ ChunkIdle /\ MatchIdle
SpecIndex == InitIndex /\ [][IndexNext]_vars

InitEvidence == EvInit /\ GateIdle /\ FlowIdle /\ LogIdle /\ IndexIdle /\ LookupIdle /\ ChunkIdle /\ MatchIdle
SpecEvidence == InitEvidence /\ [][EvNext]_vars

InitLookup == LookupInit /\ GateIdle /\ FlowIdle /\ LogIdle /\ IndexIdle /\ EvIdle /\ ChunkIdle /\ MatchIdle
SpecLookup == InitLookup /\ [][LookupNext]_vars

InitChunk == ChunkInit /\ GateIdle /\ FlowIdle /\ LogIdle /\ IndexIdle /\ EvIdle /\ LookupIdle /\ MatchIdle
SpecChunk == InitChunk /\ [][ChunkNext]_vars

InitSearch == SearchInit /\ GateIdle /\ FlowIdle /\ LogIdle /\ EvIdle /\ LookupIdle /\ ChunkIdle /\ MatchIdle
SpecSearch == InitSearch /\ [][SearchNext]_vars

InitMatch == MatchInit /\ GateIdle /\ FlowIdle /\ LogIdle /\ IndexIdle /\ EvIdle /\ LookupIdle /\ ChunkIdle
SpecMatch == InitMatch /\ [][MatchNext]_vars

(* ------------------------------ claims --------------------------------- *)
\* C1: a message carrying a photo or a document is classified
\* shouldProcess=true with priority high, whatever its text, caption and
\* forwarded flag are
C1_MediaAlwaysHigh ==
  (gpc = "classified" /\ (gmsg.hasPhoto \/ gmsg.hasDocument))
    => (gdecision.shouldProcess /\ gdecision.priority = "high")

\* a classified document-only message with empty text and caption
C1_Witness ==
  /\ gpc = "classified"
  /\ gmsg.hasDocument /\ ~gmsg.hasPhoto
  /\ gmsg.message = <<>> /\ gmsg.caption = <<>>
  /\ gdecision.priority = "high"

\* C2: a message in which some token equals an entry of the panic-keyword
\* list is never skipped: classify returns shouldProcess=true
hasKeywordToken(m) ==
  LET words == wordsOf(m)
  IN  \E i \in 1..Len(words) : \E k \in 1..Len(PANIC_KEYWORDS) :
        words[i] = PANIC_KEYWORDS[k]

C2_KeywordNeverDropped ==
  (gpc = "classified" /\ hasKeywordToken(gmsg)) => gdecision.shouldProcess

\* C3: a text-only message holding a token that misspells a panic keyword
\* of length >= 4 within edit distance min(2, 0.3 x len(keyword)) is admitted
\* with a non-empty detectedKeywords list (stated for tokens the matcher
\* compares by edit distance at all, those of length >= 4)
isMisspellingOf(word, keyword) ==
  LET d == levenshteinDistance(word, keyword)
  IN  /\ Len(keyword) >= 4
      /\ Len(word) >= 4
      /\ d >= 1
      /\ d <= 2
      /\ 10 * d <= 3 * Len(keyword)

hasMisspelledKeyword(m) ==
  LET words == wordsOf(m)
  IN  \E i \in 1..Len(words) : \E k \in 1..Len(PANIC_KEYWORDS) :
        isMisspellingOf(words[i], PANIC_KEYWORDS[k])

isTextOnly(m) == ~m.hasPhoto /\ ~m.hasDocument /\ ~m.isForwarded

C3_MisspellingDetected ==
  (gpc = "classified" /\ isTextOnly(gmsg) /\ hasMisspelledKeyword(gmsg))
    => (gdecision.shouldProcess /\ Len(gdecision.detectedKeywords) > 0)

\* C4: the decision of every classified message has priority skip exactly
\* when shouldProcess is false
C4_SkipIffNotProcessed ==
  (gpc = "classified")
    => ((gdecision.priority = "skip") <=> ~gdecision.shouldProcess)

\* a skipped casual greeting and, elsewhere, an admitted message
C4_Witness ==
  /\ gpc = "classified"
  /\ isTextOnly(gmsg)
  /\ gmsg.message = <<"h","i">>
  /\ gdecision.priority = "skip"
  /\ ~gdecision.shouldProcess

\* C5: no call to a paid service outside the process (media download,
\* decision model, evidence search) is made before the gatekeeper has
\* classified the message, and a message classified skip causes none
C5_GateBeforePaidCalls ==
  /\ fpaidBeforeGate = {}
  /\ (fgated /\ fgate.priority = "skip") => fpaid = {}

\* C6: when N log-verification calls are in flight together and the file
\* system answers every read and write, the file ends with the prior content
\* followed by the N new entries, none lost or overwritten
allAppendsDone == \A c \in LogCalls : lpc[c] = "done"

C6_NoLostUpdate ==
  (allAppendsDone /\ ~lfault)
    => /\ store.exists
       /\ store.logs = lprior \o lwritten
       /\ Len(store.logs) = Len(lprior) + NumAppends

\* all calls were pending together, ran, and the file held an entry before
C6_Witness ==
  /\ allAppendsDone /\ ~lfault
  /\ lmaxPending = NumAppends /\ NumAppends >= 2
  /\ Len(lprior) = 1
  /\ Len(store.logs) = 1 + NumAppends

\* C7: under any interleaving of queries, lazy builds and reloads the
\* module-level index, and the chunk set every query scores, is the whole
\* result of one build of the directory, never a part of one
CompleteIndexes ==
  { loadPDFsFromDirectory(dir).chunks :
      dir \in { d \in Corpora : ~loadPDFsFromDirectory(d).diverges } }

C7_IndexNeverPartial ==
  /\ documentChunks \in CompleteIndexes
  /\ \A q \in Requests : rpc[q] = "done" => rseen[q] \in CompleteIndexes

\* a reload replaced a one-chunk index by a two-chunk one while a query
\* that started before it scored whole chunk sets
C7_Witness ==
  /\ Len(documentChunks) = 2
  /\ \E q, r \in Requests :
       /\ rkind[q] = "query" /\ rpc[q] = "done" /\ Len(rseen[q]) = 1
       /\ rkind[r] = "reload" /\ rpc[r] = "done"

\* C8: when two or more queries arrive while the index is uninitialized, the
\* index is built once and the other queries reuse that build
C8_BuiltOnce == lazyBuilds <= 1

\* the tool's return value read as an evidence result: nothing found, no
\* items
notFoundNoItems(tool, out) ==
  CASE tool = "exa" -> out.results = <<>> /\ ~out.hasResults
    [] tool = "university" -> out.results = <<>> /\ ~out.hasOfficialInfo
    [] tool = "perplexity" -> out.citations = <<>> /\ out.content # "answer"
    [] tool = "youtube" -> ~out.isValid

\* C9: every evidence tool called without its API key returns a not-found
\* result with no items and does not throw
C9_NoCredentialsNotFound ==
  (epc = "done" /\ ~ekey) =>
    (~eresult.threw /\ notFoundNoItems(etool, eresult.out))

\* the request went out and the remote service failed (network fault, API
\* error, malformed body), or a result item has a URL that does not parse
hitFault ==
  \/ /\ eworld.kind \in {"fault", "apiError", "malformed"}
     /\ etool = "youtube" => videoIdOf(eargs.videoUrl).matched
  \/ /\ etool = "university" /\ eworld.kind = "ok"
     /\ \E i \in 1..Len(eworld.results) : ~parseURL(eworld.results[i].url).ok

\* C10: an evidence tool that has its key and hits a network/API fault or a
\* malformed result item does not throw, returns a not-found result with no
\* items, and does not report a verdict for or against the claim
C10_FaultIsEvidenceAbsent ==
  (epc = "done" /\ ekey /\ hitFault) =>
    /\ ~eresult.threw
    /\ notFoundNoItems(etool, eresult.out)
    /\ etool = "youtube" => eresult.out.verdict \notin {"HOAX", "VERIFIED"}


\* C11: on every return path of the video tool (invalid URL, video not
\* found, metadata fetched, transcript missing, error) the verdict field is
\* the pending-review marker
C11_VerdictAlwaysPending ==
  (epc = "done" /\ etool = "youtube" /\ ~eresult.threw) =>
    eresult.out.verdict = "PENDING_AGENT_REVIEW"

\* the host equals the domain or ends with it as a domain suffix
isDomainOrSubdomain(host, domain) ==
  host = domain \/ endsWith(host, <<".">> \o domain)

\* C12: an item of the official-domain search is flagged official exactly
\* when the host of its URL is a domain of the requested list or a
\* subdomain of one
C12_OfficialIffSuffixMatch ==
  (epc = "done" /\ etool = "university") =>
    \A i \in 1..Len(eresult.out.results) :
      LET item == eresult.out.results[i]
          domains == officialDomains(eargs.university)
      IN  item.isOfficial <=>
            \E d \in 1..Len(domains) :
              isDomainOrSubdomain(parseURL(item.url).hostname, domains[d])


\* C13: a message processed to a verdict has exactly one entry appended to
\* the learning log when the pipeline ends, and any other message has none
C13_OneLogEntryPerVerdict ==
  fpc = "done" => flogged = (IF fresult = "processed" THEN 1 ELSE 0)


\* C14: whenever a log-verification call returns logged = true, the file
\* holds the entry of that call as its last entry at that moment
C14_LoggedImpliesPersisted ==
  [][\A c \in LogCalls :
       (lpc[c] = "pending" /\ lpc'[c] = "done" /\ lresult'[c].logged) =>
         /\ store'.exists
         /\ store'.logs # <<>>
         /\ store'.logs[Len(store'.logs)] = lwritten'[Len(lwritten')]]_vars


\* the log held exactly one entry, with this claim, written before now
priorIsOnly(claim) ==
  Len(qprior) = 1 /\ qprior[1].claim = claim /\ qprior[1].timestamp # qnow

\* the entry of the prior log, as the lookup hands it back
priorCase == <<[claim |-> qprior[1].claim, verdict |-> qprior[1].verdict]>>

\* C15 as stated: the lookup for "Exam postponed to December" returns the
\* prior entry "Exams postponed to Dec 5th" and does not return "Hostel fees
\* increased"
C15_SimilarLookup ==
  (qpc = "done" /\ qclaim = ClaimDecember) =>
    /\ priorIsOnly(ClaimExamsDec5th) => qcases = priorCase
    /\ priorIsOnly(ClaimHostel) => qcases = <<>>

\* C15 amended: the lookup for "Exam postponed to December" returns neither
\* the prior entry "Exams postponed to Dec 5th" (2 of 5 tokens shared) nor
\* "Hostel fees increased"; it returns the prior entry "Exam postponed to
\* Dec 5th" (3 of 5 tokens shared) written at an earlier time
C15_SimilarLookupAmended ==
  (qpc = "done" /\ qclaim = ClaimDecember) =>
    /\ priorIsOnly(ClaimExamsDec5th) => qcases = <<>>
    /\ priorIsOnly(ClaimHostel) => qcases = <<>>
    /\ priorIsOnly(ClaimExamDec5th) => qcases = priorCase

C15_Witness ==
  /\ qpc = "done" /\ qclaim = ClaimDecember
  /\ priorIsOnly(ClaimExamDec5th)
  /\ Len(qcases) = 1
  /\ Len(qstore.logs) = 2


\* chunkText is over: it returned, or it is in a loop it cannot leave
chunkOver == cpc \in {"returned", "spinning"}

\* adjacent windows share at least one character and the windows, in the
\* order of their starts, cover the text from its first to its last character
windowsOverlapAndCover ==
  /\ cwindows # <<>>
  /\ cwindows[1].from = 0
  /\ cwindows[Len(cwindows)].to = Len(ctext)
  /\ \A i \in 1..(Len(cwindows) - 1) :
       /\ cwindows[i].from <= cwindows[i + 1].from
       /\ cwindows[i + 1].from < cwindows[i].to

\* C16: for every text longer than one window chunkText hands back windows
\* of which adjacent ones overlap and which cover the whole text
C16_WindowsOverlapAndCover ==
  (chunkOver /\ Len(ctext) > DefaultChunkSize) =>
    (cpc = "returned" /\ windowsOverlapAndCover)

\* C17: chunk-build keeps exactly the windows whose trimmed length is at
\* least 50: every window cut with 50 or more characters after trimming is
\* in the returned array, and nothing shorter is
C17_KeepsWindowsOfFiftyOrMore ==
  chunkOver =>
    /\ \A i \in 1..Len(cout) : Len(cout[i]) >= 50
    /\ \A i \in 1..Len(cchunks) :
         Len(cchunks[i]) >= 50 =>
           (cpc = "returned" /\ \E j \in 1..Len(cout) : cout[j] = cchunks[i])


\* the sentence part the document of C18 holds
PhraseExamPostponed ==
  <<"e","x","a","m"," ","p","o","s","t","p","o","n","e","d"," ","t",
    "o"," ","D","e","c"," ","5">>

\* the call of request 1 is over: it returned, or the build it waits for
\* never ends
searchOver == rpc[1] \in {"done", "building"}

\* C18: the query "is exam postponed" on a directory holding one text
\* document with the phrase "exam postponed to Dec 5" completes, returns the
\* chunk with the phrase as its first result and reports relevant results
C18_PhraseChunkOnTop ==
  (searchOver /\ rkind[1] = "query" /\ corpus = DirPhrase
     /\ rargs[1].query = QueryExamPostponed) =>
    /\ rpc[1] = "done"
    /\ rresult[1].results # <<>>
    /\ includes(rresult[1].results[1].content, PhraseExamPostponed)
    /\ rresult[1].hasRelevantResults

\* the place of chunk i of the index in the order by descending score, ties
\* in index order
rankOf(chunks, query, i) ==
  1 + Cardinality({ j \in 1..Len(chunks) :
        LET si == calculateSimilarity(query, chunks[i].content)
            sj == calculateSimilarity(query, chunks[j].content)
        IN  scoreBelow(si, sj) \/ (~scoreBelow(sj, si) /\ j < i) })

\* the results are the first count chunks of that order
firstByRank(results, chunks, query, count) ==
  /\ Len(results) = count
  /\ \A k \in 1..count :
       \E i \in 1..Len(chunks) :
         /\ rankOf(chunks, query, i) = k
         /\ results[k].source = chunks[i].source
         /\ results[k].content = chunks[i].content

\* C19: for every query and every requested topK >= 0 the results are the
\* first min(topK, number of indexed chunks) chunks by descending score,
\* equal scores in index order
C19_FirstTopKByScore ==
  (rpc[1] = "done" /\ rkind[1] = "query") =>
    firstByRank(rresult[1].results, rseen[1], rargs[1].query,
                Min2(rargs[1].topK, Len(rseen[1])))


\* every token of the message is an entry of the casual-word list
allTokensCasualEntries(m) ==
  LET words == wordsOf(m)
  IN  \A i \in 1..Len(words) :
        \E c \in 1..Len(CASUAL_WORDS) : words[i] = CASUAL_WORDS[c]

\* C20: a text-only message of at most 3 tokens, each of them an entry of
\* the casual-word list, is classified shouldProcess = false
C20_CasualTokensSkipped ==
  (gpc = "classified" /\ isTextOnly(gmsg) /\ Len(wordsOf(gmsg)) <= 3
     /\ allTokensCasualEntries(gmsg)) =>
    ~gdecision.shouldProcess

\* a message of three casual tokens ("hi hi" with the caption "ok") was skipped
C20_Witness ==
  /\ gpc = "classified" /\ isTextOnly(gmsg)
  /\ Len(wordsOf(gmsg)) = 3
  /\ allTokensCasualEntries(gmsg)
  /\ ~gdecision.shouldProcess


\* every token of the message is a substring of some entry of the
\* casual-word list
allTokensInsideCasualEntries(m) ==
  LET words == wordsOf(m)
  IN  \A i \in 1..Len(words) :
        \E c \in 1..Len(CASUAL_WORDS) : includes(CASUAL_WORDS[c], words[i])

\* C21: a message with no attachment and not forwarded, of at most 3 tokens
\* that are each a substring of some entry of the casual-word list, is
\* classified shouldProcess = false, priority skip, with the casual reason
C21_TokensInsideCasualSkipped ==
  (gpc = "classified" /\ isTextOnly(gmsg) /\ Len(wordsOf(gmsg)) <= 3
     /\ allTokensInsideCasualEntries(gmsg)) =>
    gdecision = casualDecision


\* the decision-model call failed for this message: it threw, or the run
\* ended with a response that carries no text
decisionModelFailed == fresult \in {"error", "handlerError", "processedNoText"}

\* C22: when the decision-model call for a non-empty message throws or
\* returns no text and messaging credentials are configured, a fixed
\* fallback message has been sent to the requester when the handling ends
C22_FallbackDelivered ==
  (fpc = "done" /\ fcreds /\ ~isEmptyMessage(fmsg) /\ decisionModelFailed)
    => \E i \in 1..Len(fsent) : fsent[i] \in {"apology", "handlerApology"}


\* C30: over the whole handling of an inbound message (trigger handler and
\* workflow logic) at most one message is sent to the requester, the verdict
\* text or one apology; an empty message without media and a response
\* without text send none
C30_AtMostOneOutbound ==
  /\ Len(fsent) <= 1
  /\ (fpc = "done" /\ fresult \in {"skippedEmpty", "processedNoText"})
       => fsent = <<>>

\* a handling that ended in the workflow's catch block with its one apology
\* sent, after the decision model had been called
C30_Witness ==
  /\ fpc = "done"
  /\ fresult = "error"
  /\ fcreds
  /\ "decisionModel" \in fpaid
  /\ fsent = <<"apology">>


\* lower-cased tokens of letters and digits, longer than 2 characters
alnumTokenize(text) ==
  SelectSeq(
    splitWhitespace(
      [i \in 1..Len(text) |->
         IF toLowerCase(text)[i] = "_" THEN " "
         ELSE replaceNonWord(toLowerCase(text))[i]]),
    LAMBDA word : Len(word) > 2)

\* the tokens of a sequence, each once, in order of first occurrence
RECURSIVE distinctOf(_)
distinctOf(s) ==
  IF s = <<>> THEN <<>>
  ELSE LET rest == distinctOf(SubSeq(s, 1, Len(s) - 1))
           last == s[Len(s)]
       IN  IF \E i \in 1..Len(rest) : rest[i] = last THEN rest
           ELSE Append(rest, last)

\* twice what one query token adds: 1 when it is among the chunk tokens, and
\* 0.5 for every entry of the chunk tokens that contains it or is contained
\* in it
twiceTokenPoints(q, ds) ==
  (IF \E j \in 1..Len(ds) : ds[j] = q THEN 2 ELSE 0) +
  Cardinality({ j \in 1..Len(ds) : includes(ds[j], q) \/ includes(q, ds[j]) })

RECURSIVE twicePoints(_, _)
twicePoints(qs, ds) ==
  IF qs = <<>> THEN 0
  ELSE twiceTokenPoints(Head(qs), ds) + twicePoints(Tail(qs), ds)

\* the score with 0.5 for each occurrence of a chunk token, over tokens of
\* letters and digits
scoreByOccurrence(query, document) ==
  LET qs == distinctOf(alnumTokenize(query))
  IN  [num |-> twicePoints(qs, alnumTokenize(document)),
       den |-> 2 * Max2(Len(qs), 1)]

\* the score with 0.5 for each distinct chunk token, over tokens of letters,
\* digits and underscores
scoreByDistinct(query, document) ==
  LET qs == distinctOf(simpleTokenize(query))
  IN  [num |-> twicePoints(qs, distinctOf(simpleTokenize(document))),
       den |-> 2 * Max2(Len(qs), 1)]

\* C24: the relevance score of a chunk for a query is, over lower-cased
\* alphanumeric tokens longer than 2, the sum over the unique query tokens of
\* 1 for a verbatim chunk token plus 0.5 for every occurrence of a chunk
\* token that contains the query token or is contained in it, divided by
\* max(1, number of unique query tokens)
C24_ScorePerOccurrence ==
  (rpc[1] = "done" /\ rkind[1] = "query") =>
    \A k \in 1..Len(rresult[1].results) :
      rresult[1].results[k].relevanceScore =
        roundedScore(scoreByOccurrence(rargs[1].query,
                                       rresult[1].results[k].content))

\* C24 as amended: 0.5 is added once for every distinct chunk token that
\* contains the query token or is contained in it, and a token is a run of
\* letters, digits and underscores
C24_ScorePerDistinctToken ==
  (rpc[1] = "done" /\ rkind[1] = "query") =>
    \A k \in 1..Len(rresult[1].results) :
      rresult[1].results[k].relevanceScore =
        roundedScore(scoreByDistinct(rargs[1].query,
                                     rresult[1].results[k].content))

\* the query "pdf document" scored 1.5 against the placeholder of exam.pdf,
\* whose text holds the token "pdf" twice
C24_Witness ==
  /\ rpc[1] = "done" /\ rkind[1] = "query"
  /\ rargs[1].query = <<"p","d","f"," ","d","o","c","u","m","e","n","t">>
  /\ \E k \in 1..Len(rresult[1].results) :
       /\ rresult[1].results[k].source = FileExam.name
       /\ rresult[1].results[k].relevanceScore = 150


\* the least element of a non-empty set of numbers
leastOf(S) == CHOOSE m \in S : \A x \in S : m <= x

\* row i of the edit-distance table of a against b from row i - 1: position
\* k is reached from the row above by a deletion or by a substitution
\* (free when the characters agree), and position j from a position k <= j
\* of the same row by j - k insertions
editRow(prev, a, bch, i) ==
  LET reach(k) ==
        IF k = 0 THEN i
        ELSE Min2(prev[k + 1] + 1, prev[k] + (IF a[k] = bch THEN 0 ELSE 1))
  IN  forLoop(LAMBDA row, j1 :
                Append(row, leastOf({ reach(k) + (j1 - 1 - k) : k \in 0..(j1 - 1) })),
              <<>>, 1, Len(a) + 1)

\* the reference edit distance with unit-cost insert, delete and substitute
editDistance(a, b) ==
  forLoop(LAMBDA prev, i : editRow(prev, a, b[i], i),
          [j \in 1..(Len(a) + 1) |-> j - 1], 1, Len(b))[Len(a) + 1]

\* C25: match(word, term, maxDistance) is true exactly when word equals
\* term, or one is a substring of the other, or both have length >= 4 and
\* their edit distance is <= min(maxDistance, floor(0.3 * len(term))); the
\* distance the matcher computes is the reference edit distance
C25_LexicalMatcher ==
  /\ mpc = "matched" =>
       (mmatched <=>
          \/ mword = mterm
          \/ includes(mword, mterm) \/ includes(mterm, mword)
          \/ /\ Len(mword) >= 4 /\ Len(mterm) >= 4
             /\ editDistance(mword, mterm)
                  <= Min2(mmax, (3 * Len(mterm)) \div 10))
  /\ mpc = "measured" => mdistance = editDistance(mword, mterm)

\* "holydey" matched "holiday" with maxDistance 2: two substitutions, at the
\* threshold min(2, floor(2.1)) = 2
C25_Witness ==
  /\ mpc = "matched"
  /\ mword = <<"h","o","l","y","d","e","y">>
  /\ mterm = <<"h","o","l","i","d","a","y">>
  /\ mmax = 2
  /\ mmatched


\* the entries of the log before the append whose claim is similar to the new
\* claim, the five most recent of them, in log order, as the lookup maps them
similarPriorCases ==
  LET similar == SelectSeq(qprior,
                   LAMBDA log : similarityAboveHalf(toLowerCase(qclaim),
                                                    toLowerCase(log.claim)))
      recent == lastFive(similar)
  IN  [i \in 1..Len(recent) |->
         [claim |-> recent[i].claim, verdict |-> recent[i].verdict]]

\* C26: the similar-past-cases result of an append is exactly the entries
\* already in the log before the append with similarity > 0.5 to the new
\* claim, the five most recent of them in log order: none of them is left
\* out, also one written in the same millisecond, and the entry just
\* appended is not among them
C26_SimilarPastCasesExact ==
  qpc = "done" => qcases = similarPriorCases


\* C27: chunkText terminates for every finite text with target size 500 and
\* overlap 100: the window start is beyond every start the loop has been at
\* before, and the loop never comes back to a start it cannot leave
C27_ChunkTextTerminates ==
  /\ \A s \in cseen : s < cstart
  /\ cpc # "spinning"


\* C28: the log is append-only across any sequence of appends: what an
\* append leaves persisted starts with the log persisted before it, no
\* earlier entry removed, reordered or changed, also when the read at the
\* start of the append fails or yields unparsable content
C28_AppendOnly ==
  [][\A c \in LogCalls :
       (lpc[c] = "pending" /\ lpc'[c] = "done") =>
         /\ Len(store'.logs) >= Len(store.logs)
         /\ SubSeq(store'.logs, 1, Len(store.logs)) = store.logs]_vars


\* C29: the lazy build runs only while the index is uninitialized: a query
\* that starts a build of the directory finds isInitialized false, whatever
\* the size of the corpus built before
C29_LazyBuildOnlyUninitialized ==
  [][\A q \in Requests :
       (rpc[q] = "idle" /\ rkind'[q] = "query"
          /\ rpc'[q] \in {"awaitLoad", "building"}) => ~isInitialized]_vars

====
